---- MODULE Spec2Model ----
(***************************************************************************)
(* Model of the microwave test bench core:                                 *)
(*   - MicrowaveStateMachine (src/state_machine.py)                        *)
(*   - DAQHandler            (src/daq_handler.py)                          *)
(* Times are whole seconds, voltages are hundredths of a volt.             *)
(***************************************************************************)
EXTENDS Integers, Sequences, FiniteSets, TLC

(***************************************************************************)
(* Bounds of the model.                                                    *)
(***************************************************************************)
\* largest value of time.time() seen by the state machine
MaxNow == 4
\* largest sleep_timeout passed to the constructor (the default is 900)
MaxTimeout == 2

\* config.POWER_CALC_WINDOW, scaled down from 100 samples
POWER_CALC_WINDOW == 2
\* largest value of datetime.now() seen by the handler
MaxClock == 5
\* longest time between two reads
MaxStep == 2

VARIABLES
    \* ---- DAQHandler ----
    is_connected,       \* self.is_connected
    is_recording,       \* self.is_recording
    data_buffers,       \* self.data_buffers: channel -> deque of voltages
    timestamps,         \* self.timestamps: deque of times
    start_time,         \* self.start_time
    sample_count,       \* self.sample_count
    door_open_count,    \* self.door_open_count
    last_door_state,    \* self.last_door_state
    overlap_start_time, \* self.overlap_start_time
    overlap_duration,   \* self.overlap_duration
    clock,              \* datetime.now()
    op,                 \* the last operation called on the handler, with its outcome
    sample_data,        \* the sample returned by the last successful read_sample
    log,                \* history: the samples returned since the last start_recording
    fresh,              \* history: the overlap tracker was clear at the last start_recording
    defrost_mode,       \* self.defrost_mode
    defrost_weight,     \* self.defrost_weight
    defrost_sectors,    \* self.defrost_sectors
    defrost_ret,        \* what the last calculate_defrost_sectors returned
    sector_ret,         \* the last get_current_defrost_sector call: its argument, its
                        \* result and the schedule it was asked about
    expected_mw_power,  \* self.expected_mw_power
    expected_grill_power, \* self.expected_grill_power
    results,            \* what the last analyze_pass_fail returned
    \* ---- MainWindow ----
    current_mode,       \* self.current_mode (its entry of MODE_CONFIGS is self.current_config)
    door_status,        \* text of the status label of the Door SW signal widget
    \* ---- MicrowaveStateMachine ----
    state,              \* self.state
    locked,             \* self.locked
    last_interaction,   \* self.last_interaction
    sleep_timeout,      \* self.sleep_timeout
    now,                \* time.time() as read by the last update
    daq_signals,        \* argument of the last update
    prev,               \* history: the machine as the last update found it
    scenario            \* history: number of steps of the end-to-end
                        \* scenario matched since construction, -1 once left

smvars == <<state, locked, last_interaction, sleep_timeout, now, daq_signals, prev, scenario>>

daqvars == <<is_connected, is_recording, data_buffers, timestamps, start_time,
             sample_count, door_open_count, last_door_state, overlap_start_time,
             overlap_duration, clock, op, sample_data, log, fresh>>

defrostvars == <<defrost_mode, defrost_weight, defrost_sectors, defrost_ret, sector_ret>>

pfvars == <<expected_mw_power, expected_grill_power, results>>

appvars == <<current_mode, door_status>>

\* everything a read, a connect or a start/stop of the handler leaves alone
nondaqvars == <<smvars, defrostvars, pfvars, appvars>>

vars == <<smvars, daqvars, defrostvars, pfvars, appvars>>

(***************************************************************************)
(* MicrowaveStateMachine                                                   *)
(***************************************************************************)
MicrowaveState == {"IDLE", "RUN", "PAUSE", "SLEEP", "LOCKED"}

\* the dict handed to update(); a missing key reads as false
Signals == [door_open : BOOLEAN, start_pressed : BOOLEAN, cancel_pressed : BOOLEAN,
            knob_turned : BOOLEAN, lock_combo : BOOLEAN, unlock_combo : BOOLEAN]

NoSignals == [door_open |-> FALSE, start_pressed |-> FALSE, cancel_pressed |-> FALSE,
              knob_turned |-> FALSE, lock_combo |-> FALSE, unlock_combo |-> FALSE]

\* any([start_pressed, cancel_pressed, knob_turned, door_open])
AnyInteraction(sig) ==
    sig.start_pressed \/ sig.cancel_pressed \/ sig.knob_turned \/ sig.door_open

\* the machine as a record, m = [state, locked, last_interaction, sleep_timeout]
Machine(st, lk, li, to) ==
    [state |-> st, locked |-> lk, last_interaction |-> li, sleep_timeout |-> to]

\* variant: the locked branch lets the inactivity timeout put the machine to sleep
LockedUpdate_Sleeps(m, sig, t) ==
    IF sig.unlock_combo
    THEN [m EXCEPT !.locked = FALSE, !.state = "IDLE", !.last_interaction = t]
    ELSE IF (t - m.last_interaction) > m.sleep_timeout
         THEN [m EXCEPT !.state = "SLEEP"]
         ELSE [m EXCEPT !.state = "LOCKED"]

\* if self.locked: ... return self.state
LockedUpdate(m, sig, t) ==
    IF sig.unlock_combo
    THEN [m EXCEPT !.locked = FALSE, !.state = "IDLE", !.last_interaction = t]
    ELSE [m EXCEPT !.state = "LOCKED"]

\* variant: every update resets the timer, interaction or not
InteractionStep_Always(m, sig, t) ==
    [m EXCEPT !.last_interaction = t,
              !.state = IF m.state = "SLEEP" /\ AnyInteraction(sig) THEN "IDLE" ELSE m.state]

\* "Any user interaction resets sleep timer"
InteractionStep(m, sig, t) ==
    IF AnyInteraction(sig)
    THEN [m EXCEPT !.last_interaction = t,
                   !.state = IF m.state = "SLEEP" THEN "IDLE" ELSE m.state]
    ELSE m

\* variant: the lock combo sets the flag and leaves the state
LockStep_FlagOnly(m) == [m EXCEPT !.locked = TRUE]

\* "Lock combo"
LockStep(m) == [m EXCEPT !.locked = TRUE, !.state = "LOCKED"]

\* variant: the comparison is >= instead of >
SleepDue_AtTimeout(m, t) == (t - m.last_interaction) >= m.sleep_timeout

\* "Sleep mode": (now - self.last_interaction) > self.sleep_timeout
SleepDue(m, t) == (t - m.last_interaction) > m.sleep_timeout

\* variant: RUN does not look at the door
Transition_RunIgnoresDoor(m, sig, t) ==
    CASE m.state = "IDLE" ->
            IF sig.start_pressed /\ ~sig.door_open
            THEN [m EXCEPT !.state = "RUN"] ELSE m
      [] m.state = "RUN" ->
            IF sig.cancel_pressed THEN [m EXCEPT !.state = "IDLE"] ELSE m
      [] m.state = "PAUSE" ->
            IF ~sig.door_open /\ sig.start_pressed THEN [m EXCEPT !.state = "RUN"]
            ELSE IF sig.cancel_pressed THEN [m EXCEPT !.state = "IDLE"]
            ELSE m
      [] m.state = "SLEEP" ->
            IF AnyInteraction(sig)
            THEN [m EXCEPT !.state = "IDLE", !.last_interaction = t]
            ELSE m
      [] OTHER -> m

\* variant: PAUSE resumes on start_pressed whatever the door does
Transition_PauseIgnoresDoor(m, sig, t) ==
    CASE m.state = "IDLE" ->
            IF sig.start_pressed /\ ~sig.door_open
            THEN [m EXCEPT !.state = "RUN"] ELSE m
      [] m.state = "RUN" ->
            IF sig.door_open THEN [m EXCEPT !.state = "PAUSE"]
            ELSE IF sig.cancel_pressed THEN [m EXCEPT !.state = "IDLE"]
            ELSE m
      [] m.state = "PAUSE" ->
            IF sig.start_pressed THEN [m EXCEPT !.state = "RUN"]
            ELSE IF sig.cancel_pressed THEN [m EXCEPT !.state = "IDLE"]
            ELSE m
      [] m.state = "SLEEP" ->
            IF AnyInteraction(sig)
            THEN [m EXCEPT !.state = "IDLE", !.last_interaction = t]
            ELSE m
      [] OTHER -> m

\* variant: IDLE starts on start_pressed whatever the door does
Transition_IdleIgnoresDoor(m, sig, t) ==
    CASE m.state = "IDLE" ->
            IF sig.start_pressed THEN [m EXCEPT !.state = "RUN"] ELSE m
      [] m.state = "RUN" ->
            IF sig.door_open THEN [m EXCEPT !.state = "PAUSE"]
            ELSE IF sig.cancel_pressed THEN [m EXCEPT !.state = "IDLE"]
            ELSE m
      [] m.state = "PAUSE" ->
            IF ~sig.door_open /\ sig.start_pressed THEN [m EXCEPT !.state = "RUN"]
            ELSE IF sig.cancel_pressed THEN [m EXCEPT !.state = "IDLE"]
            ELSE m
      [] m.state = "SLEEP" ->
            IF AnyInteraction(sig)
            THEN [m EXCEPT !.state = "IDLE", !.last_interaction = t]
            ELSE m
      [] OTHER -> m

\* variant: cancel_pressed is looked at before the door and start_pressed
Transition_CancelFirst(m, sig, t) ==
    CASE m.state = "IDLE" ->
            IF sig.start_pressed /\ ~sig.door_open
            THEN [m EXCEPT !.state = "RUN"] ELSE m
      [] m.state = "RUN" ->
            IF sig.cancel_pressed THEN [m EXCEPT !.state = "IDLE"]
            ELSE IF sig.door_open THEN [m EXCEPT !.state = "PAUSE"]
            ELSE m
      [] m.state = "PAUSE" ->
            IF sig.cancel_pressed THEN [m EXCEPT !.state = "IDLE"]
            ELSE IF ~sig.door_open /\ sig.start_pressed THEN [m EXCEPT !.state = "RUN"]
            ELSE m
      [] m.state = "SLEEP" ->
            IF AnyInteraction(sig)
            THEN [m EXCEPT !.state = "IDLE", !.last_interaction = t]
            ELSE m
      [] OTHER -> m

\* "State transitions"
Transition(m, sig, t) ==
    CASE m.state = "IDLE" ->
            IF sig.start_pressed /\ ~sig.door_open
            THEN [m EXCEPT !.state = "RUN"] ELSE m
      [] m.state = "RUN" ->
            IF sig.door_open THEN [m EXCEPT !.state = "PAUSE"]
            ELSE IF sig.cancel_pressed THEN [m EXCEPT !.state = "IDLE"]
            ELSE m
      [] m.state = "PAUSE" ->
            IF ~sig.door_open /\ sig.start_pressed THEN [m EXCEPT !.state = "RUN"]
            ELSE IF sig.cancel_pressed THEN [m EXCEPT !.state = "IDLE"]
            ELSE m
      [] m.state = "SLEEP" ->
            IF AnyInteraction(sig)
            THEN [m EXCEPT !.state = "IDLE", !.last_interaction = t]
            ELSE m
      [] OTHER -> m

\* variant: the sleep check is made before the lock combo
update_SleepBeforeLock(m, sig, t) ==
    IF m.locked THEN LockedUpdate(m, sig, t)
    ELSE LET m1 == InteractionStep(m, sig, t) IN
         IF SleepDue(m1, t) THEN [m1 EXCEPT !.state = "SLEEP"]
         ELSE IF sig.lock_combo THEN LockStep(m1)
         ELSE Transition(m1, sig, t)

\* MicrowaveStateMachine.update(daq_signals) with now = t
update(m, sig, t) ==
    IF m.locked THEN LockedUpdate(m, sig, t)
    ELSE LET m1 == InteractionStep(m, sig, t) IN
         IF sig.lock_combo THEN LockStep(m1)
         ELSE IF SleepDue(m1, t) THEN [m1 EXCEPT !.state = "SLEEP"]
         ELSE Transition(m1, sig, t)

\* The end-to-end scenario: the inputs of step k (1..7)
ScenarioInput(k, sig) ==
    CASE k = 1 -> sig = [NoSignals EXCEPT !.start_pressed = TRUE]
      [] k = 2 -> sig = [NoSignals EXCEPT !.door_open = TRUE]
      [] k = 3 -> sig = [NoSignals EXCEPT !.start_pressed = TRUE]
      [] k = 4 -> sig = [NoSignals EXCEPT !.cancel_pressed = TRUE]
      [] k = 5 -> sig = [NoSignals EXCEPT !.lock_combo = TRUE]
      [] k = 6 -> ~sig.unlock_combo
      [] k = 7 -> sig.unlock_combo
      [] OTHER -> FALSE

\* the states the scenario is said to go through
ScenarioStates == <<"RUN", "PAUSE", "RUN", "IDLE", "LOCKED", "LOCKED", "IDLE">>

ScenarioLength == Len(ScenarioStates)

SMInit ==
    /\ state = "IDLE"
    /\ locked = FALSE
    /\ now = 0
    /\ last_interaction = 0
    /\ sleep_timeout \in 1..MaxTimeout
    /\ daq_signals = NoSignals
    /\ prev = Machine("IDLE", FALSE, 0, sleep_timeout)
    /\ scenario = 0

\* one call of update() that reads the time t and is passed sig
UpdateWith(sig, t) ==
        LET m == update(Machine(state, locked, last_interaction, sleep_timeout), sig, t) IN
        /\ state' = m.state
        /\ locked' = m.locked
        /\ last_interaction' = m.last_interaction
        /\ sleep_timeout' = m.sleep_timeout
        /\ now' = t
        /\ daq_signals' = sig
        /\ prev' = Machine(state, locked, last_interaction, sleep_timeout)
        /\ scenario' = IF /\ scenario \in 0..(ScenarioLength - 1)
                          /\ ScenarioInput(scenario + 1, sig)
                          /\ t - last_interaction <= sleep_timeout
                       THEN scenario + 1 ELSE -1

\* one call of update(): time has moved on to t, the driver passes sig
Update ==
    \E sig \in Signals, t \in now..MaxNow :
        /\ UpdateWith(sig, t)
        /\ UNCHANGED <<daqvars, defrostvars, pfvars, appvars>>

SMNext == Update

(***************************************************************************)
(* DAQHandler                                                              *)
(***************************************************************************)
\* config.CHANNELS, in the order of the dict
Channels == <<"Door SW", "Lamp", "Microwave", "Grill", "Buzzer">>

ChannelNames == {Channels[i] : i \in 1..Len(Channels)}

\* config.py thresholds, in hundredths of a volt, and the tolerance in seconds
ON_THRESHOLD == 460
OUT_OF_RANGE_HIGH == 550
OUT_OF_RANGE_LOW == -50
OVERLAP_TOLERANCE == 2

\* deque(maxlen=10000), scaled down; a literal of its own, larger than the
\* power window
BUFFER_MAXLEN == 3

\* None, for a time
NoTime == -1

\* one reading of task.read(): a voltage per channel
Reading(door, mw, grill) ==
    [c \in ChannelNames |->
        CASE c = "Door SW" -> door [] c = "Microwave" -> mw [] c = "Grill" -> grill
          [] OTHER -> 0]

\* the readings task.read() delivers in the model: door closed (0.30 V) or
\* open (4.90 V), relays just below (4.50 V) or at (4.60 V) the ON threshold
Readings ==
    { Reading(30, 450, 450), Reading(30, 460, 450), Reading(30, 460, 460),
      Reading(490, 450, 460), Reading(490, 460, 460) }

\* variant: a full deque refuses the new element
DequeAppend_KeepsOldest(q, x) ==
    IF Len(q) >= BUFFER_MAXLEN THEN q ELSE Append(q, x)

\* deque.append on a deque with maxlen
DequeAppend(q, x) ==
    IF Len(q) >= BUFFER_MAXLEN THEN Append(Tail(q), x) ELSE Append(q, x)

RECURSIVE GCD(_, _)
GCD(a, b) == IF b = 0 THEN a ELSE GCD(b, a % b)

\* (on_count / n) * 100 as an exact fraction in lowest terms; 0 when n = 0
Percent(on_count, n) ==
    IF n = 0 \/ on_count = 0 THEN [num |-> 0, den |-> 1]
    ELSE LET g == GCD(100 * on_count, n) IN
         [num |-> (100 * on_count) \div g, den |-> n \div g]

\* sum(1 for v in window if v >= config.ON_THRESHOLD)
RECURSIVE OnCount(_)
OnCount(window) ==
    IF window = <<>> THEN 0
    ELSE (IF Head(window) >= ON_THRESHOLD THEN 1 ELSE 0) + OnCount(Tail(window))

\* variant: the whole buffer is taken, not the last POWER_CALC_WINDOW samples
PowerWindow_WholeBuffer(buffer) == buffer

\* buffer[-W:] if len(buffer) >= W else buffer
PowerWindow(buffer) ==
    IF Len(buffer) >= POWER_CALC_WINDOW
    THEN SubSeq(buffer, Len(buffer) - POWER_CALC_WINDOW + 1, Len(buffer))
    ELSE buffer

\* DAQHandler._calculate_powers
CalculatePowers(buffers) ==
    LET mw_window    == PowerWindow(buffers["Microwave"])
        grill_window == PowerWindow(buffers["Grill"])
    IN  [Microwave         |-> Percent(OnCount(mw_window), Len(mw_window)),
         Microwave_samples |-> Len(mw_window),
         Grill             |-> Percent(OnCount(grill_window), Len(grill_window)),
         Grill_samples     |-> Len(grill_window)]

\* the warning strings, by what they say
RangeWarning(channel, voltage) == [kind |-> "out of range", channel |-> channel, value |-> voltage]
DoorWarning == [kind |-> "door opened", channel |-> "Door SW", value |-> 0]
OverlapWarning(duration) == [kind |-> "overlap", channel |-> "Microwave+Grill", value |-> duration]

\* variant: the two ends of the range are themselves out of range
OutOfRangeCheck_Inclusive(voltages) ==
    LET out(c) == voltages[c] >= OUT_OF_RANGE_HIGH \/ voltages[c] <= OUT_OF_RANGE_LOW
        bad    == SelectSeq(Channels, out)
    IN  [i \in 1..Len(bad) |-> RangeWarning(bad[i], voltages[bad[i]])]

\* "Check out of range", in the order of the channels
OutOfRangeCheck(voltages) ==
    LET out(c) == voltages[c] > OUT_OF_RANGE_HIGH \/ voltages[c] < OUT_OF_RANGE_LOW
        bad    == SelectSeq(Channels, out)
    IN  [i \in 1..Len(bad) |-> RangeWarning(bad[i], voltages[bad[i]])]

\* variant: the door is counted at every tick it is open, not on the edge
DoorCheck_Level(count, last, voltages) ==
    LET door_open == voltages["Door SW"] >= ON_THRESHOLD IN
    [count    |-> IF door_open THEN count + 1 ELSE count,
     last     |-> door_open,
     warnings |-> IF door_open THEN <<DoorWarning>> ELSE <<>>]

\* "Check door opened (REVERSED LOGIC)"
DoorCheck(count, last, voltages) ==
    LET door_open == voltages["Door SW"] >= ON_THRESHOLD IN
    [count    |-> IF door_open /\ ~last THEN count + 1 ELSE count,
     last     |-> door_open,
     warnings |-> IF door_open /\ ~last THEN <<DoorWarning>> ELSE <<>>]

\* variant: the warning starts at the tolerance, not beyond it
OverlapCheck_AtTolerance(start, duration, timestamp, voltages) ==
    LET mw_on    == voltages["Microwave"] >= ON_THRESHOLD
        grill_on == voltages["Grill"] >= ON_THRESHOLD
    IN  IF mw_on /\ grill_on
        THEN IF start = NoTime
             THEN [start |-> timestamp, duration |-> duration, warnings |-> <<>>]
             ELSE [start |-> start, duration |-> timestamp - start,
                   warnings |-> IF timestamp - start >= OVERLAP_TOLERANCE
                                THEN <<OverlapWarning(timestamp - start)>> ELSE <<>>]
        ELSE [start |-> NoTime, duration |-> 0, warnings |-> <<>>]

\* variant: the warning is given once, at the first tick beyond the tolerance
OverlapCheck_WarnsOnce(start, duration, timestamp, voltages) ==
    LET mw_on    == voltages["Microwave"] >= ON_THRESHOLD
        grill_on == voltages["Grill"] >= ON_THRESHOLD
    IN  IF mw_on /\ grill_on
        THEN IF start = NoTime
             THEN [start |-> timestamp, duration |-> duration, warnings |-> <<>>]
             ELSE [start |-> start, duration |-> timestamp - start,
                   warnings |-> IF /\ timestamp - start > OVERLAP_TOLERANCE
                                   /\ duration <= OVERLAP_TOLERANCE
                                THEN <<OverlapWarning(timestamp - start)>> ELSE <<>>]
        ELSE [start |-> NoTime, duration |-> 0, warnings |-> <<>>]

\* "Check MW + Grill overlap"
OverlapCheck(start, duration, timestamp, voltages) ==
    LET mw_on    == voltages["Microwave"] >= ON_THRESHOLD
        grill_on == voltages["Grill"] >= ON_THRESHOLD
    IN  IF mw_on /\ grill_on
        THEN IF start = NoTime
             THEN [start |-> timestamp, duration |-> duration, warnings |-> <<>>]
             ELSE [start |-> start, duration |-> timestamp - start,
                   warnings |-> IF timestamp - start > OVERLAP_TOLERANCE
                                THEN <<OverlapWarning(timestamp - start)>> ELSE <<>>]
        ELSE [start |-> NoTime, duration |-> 0, warnings |-> <<>>]

\* one row of get_all_data, for the 0-based index i
ExportRow(i, buffers, times, start) ==
    LET elapsed == times[i + 1] - start
        mw      == buffers["Microwave"]
        grill   == buffers["Grill"]
        mw_window    == IF i >= POWER_CALC_WINDOW
                        THEN SubSeq(mw, i - POWER_CALC_WINDOW + 1, i)
                        ELSE SubSeq(mw, 1, i + 1)
        grill_window == IF i >= POWER_CALC_WINDOW
                        THEN SubSeq(grill, i - POWER_CALC_WINDOW + 1, i)
                        ELSE SubSeq(grill, 1, i + 1)
    IN  [H   |-> elapsed \div 3600,
         Min |-> (elapsed % 3600) \div 60,
         Sec |-> elapsed % 60,
         ms  |-> 0,
         Door_SW   |-> buffers["Door SW"][i + 1],
         Lamp      |-> buffers["Lamp"][i + 1],
         Microwave |-> buffers["Microwave"][i + 1],
         Grill     |-> buffers["Grill"][i + 1],
         Buzzer    |-> buffers["Buzzer"][i + 1],
         MW_Power    |-> Percent(OnCount(mw_window), Len(mw_window)),
         Grill_Power |-> Percent(OnCount(grill_window), Len(grill_window))]

\* DAQHandler.get_all_data
GetAllData(buffers, times, start) ==
    [k \in 1..Len(times) |-> ExportRow(k - 1, buffers, times, start)]

\* an expectation is None, the string 'variable', or a number of percent
NoExpectation == [tag |-> "None", value |-> 0]
Variable == [tag |-> "variable", value |-> 0]
Expect(n) == [tag |-> "num", value |-> n]

\* no sample returned yet
NoSample == [timestamp |-> NoTime, elapsed |-> 0,
             voltages |-> [c \in ChannelNames |-> 0],
             warnings |-> <<>>, powers |-> CalculatePowers([c \in ChannelNames |-> <<>>])]

DAQInit ==
    /\ is_connected = FALSE
    /\ is_recording = FALSE
    /\ data_buffers = [c \in ChannelNames |-> <<>>]
    /\ timestamps = <<>>
    /\ start_time = NoTime
    /\ sample_count = 0
    /\ door_open_count = 0
    /\ last_door_state = FALSE
    /\ overlap_start_time = NoTime
    /\ overlap_duration = 0
    /\ clock = 0
    /\ op = "init"
    /\ sample_data = NoSample
    /\ log = <<>>
    /\ fresh = TRUE
    /\ defrost_mode = FALSE
    /\ defrost_weight = 0
    /\ defrost_sectors = <<>>
    /\ defrost_ret = <<>>
    /\ sector_ret = <<>>
    /\ expected_mw_power = NoExpectation
    /\ expected_grill_power = NoExpectation
    /\ results = <<>>

\* connect(): the device answers or the driver raises
Connect ==
    /\ \E ok \in BOOLEAN :
          /\ is_connected' = ok
          /\ op' = IF ok THEN "connect" ELSE "connect failed"
    /\ UNCHANGED <<is_recording, data_buffers, timestamps, start_time, sample_count,
                   door_open_count, last_door_state, overlap_start_time,
                   overlap_duration, clock, sample_data, log, fresh>>
    /\ UNCHANGED nondaqvars

\* disconnect()
Disconnect ==
    /\ is_connected' = FALSE
    /\ op' = "disconnect"
    /\ UNCHANGED <<is_recording, data_buffers, timestamps, start_time, sample_count,
                   door_open_count, last_door_state, overlap_start_time,
                   overlap_duration, clock, sample_data, log, fresh>>
    /\ UNCHANGED nondaqvars

\* variant: the channel buffers are cleared, the timestamps are not
StartRecordingStep_KeepsTimestamps ==
    /\ is_connected
    /\ is_recording' = TRUE
    /\ start_time' = clock
    /\ sample_count' = 0
    /\ door_open_count' = 0
    /\ data_buffers' = [c \in ChannelNames |-> <<>>]
    /\ op' = "start_recording"
    /\ log' = <<>>
    /\ fresh' = (overlap_start_time = NoTime)
    /\ UNCHANGED <<is_connected, timestamps, last_door_state, overlap_start_time,
                   overlap_duration, clock, sample_data>>

\* start_recording() on a connected handler: what it does to the handler
StartRecordingStep ==
    /\ is_connected
    /\ is_recording' = TRUE
    /\ start_time' = clock
    /\ sample_count' = 0
    /\ door_open_count' = 0
    /\ data_buffers' = [c \in ChannelNames |-> <<>>]
    /\ timestamps' = <<>>
    /\ op' = "start_recording"
    /\ log' = <<>>
    /\ fresh' = (overlap_start_time = NoTime)
    /\ UNCHANGED <<is_connected, last_door_state, overlap_start_time,
                   overlap_duration, clock, sample_data>>

\* start_recording() on a connected handler
StartRecording ==
    /\ StartRecordingStep
    /\ UNCHANGED nondaqvars

\* start_recording() on a handler that is not connected: "DAQ not connected"
StartRecordingRefused ==
    /\ ~is_connected
    /\ op' = "start_recording refused"
    /\ UNCHANGED <<is_connected, is_recording, data_buffers, timestamps, start_time,
                   sample_count, door_open_count, last_door_state, overlap_start_time,
                   overlap_duration, clock, sample_data, log, fresh>>
    /\ UNCHANGED nondaqvars

\* stop_recording()
StopRecording ==
    /\ is_recording' = FALSE
    /\ op' = "stop_recording"
    /\ UNCHANGED <<is_connected, data_buffers, timestamps, start_time, sample_count,
                   door_open_count, last_door_state, overlap_start_time,
                   overlap_duration, clock, sample_data, log, fresh>>
    /\ UNCHANGED nondaqvars

\* read_sample() while not connected or not recording: (None, "Not recording")
ReadSampleIdle ==
    /\ ~is_connected \/ ~is_recording
    /\ op' = "read_sample idle"
    /\ UNCHANGED <<is_connected, is_recording, data_buffers, timestamps, start_time,
                   sample_count, door_open_count, last_door_state, overlap_start_time,
                   overlap_duration, clock, sample_data, log, fresh>>
    /\ UNCHANGED nondaqvars

\* variant: the door warning is put before the out-of-range warnings
ReadSampleFrom_DoorFirst(readings, steps, limit) ==
    /\ is_connected /\ is_recording
    /\ \E data \in readings, dt \in steps :
        LET timestamp == clock + dt
            buffers   == [c \in ChannelNames |-> DequeAppend(data_buffers[c], data[c])]
            door      == DoorCheck(door_open_count, last_door_state, data)
            overlap   == OverlapCheck(overlap_start_time, overlap_duration, timestamp, data)
            sample    == [timestamp |-> timestamp,
                          elapsed   |-> timestamp - start_time,
                          voltages  |-> data,
                          warnings  |-> door.warnings \o OutOfRangeCheck(data) \o overlap.warnings,
                          powers    |-> CalculatePowers(buffers)]
        IN  /\ timestamp <= limit
            /\ clock' = timestamp
            /\ timestamps' = DequeAppend(timestamps, timestamp)
            /\ data_buffers' = buffers
            /\ sample_count' = sample_count + 1
            /\ door_open_count' = door.count
            /\ last_door_state' = door.last
            /\ overlap_start_time' = overlap.start
            /\ overlap_duration' = overlap.duration
            /\ sample_data' = sample
            /\ log' = Append(log, sample)
    /\ op' = "read_sample"
    /\ UNCHANGED <<is_connected, is_recording, start_time, fresh>>

\* read_sample(): task.read() delivers one of readings, after one of steps
\* seconds, while the clock stays within limit
ReadSampleFrom(readings, steps, limit) ==
    /\ is_connected /\ is_recording
    /\ \E data \in readings, dt \in steps :
        LET timestamp == clock + dt
            buffers   == [c \in ChannelNames |-> DequeAppend(data_buffers[c], data[c])]
            door      == DoorCheck(door_open_count, last_door_state, data)
            overlap   == OverlapCheck(overlap_start_time, overlap_duration, timestamp, data)
            sample    == [timestamp |-> timestamp,
                          elapsed   |-> timestamp - start_time,
                          voltages  |-> data,
                          warnings  |-> OutOfRangeCheck(data) \o door.warnings \o overlap.warnings,
                          powers    |-> CalculatePowers(buffers)]
        IN  /\ timestamp <= limit
            /\ clock' = timestamp
            /\ timestamps' = DequeAppend(timestamps, timestamp)
            /\ data_buffers' = buffers
            /\ sample_count' = sample_count + 1
            /\ door_open_count' = door.count
            /\ last_door_state' = door.last
            /\ overlap_start_time' = overlap.start
            /\ overlap_duration' = overlap.duration
            /\ sample_data' = sample
            /\ log' = Append(log, sample)
    /\ op' = "read_sample"
    /\ UNCHANGED <<is_connected, is_recording, start_time, fresh>>

\* read_sample(): task.read() delivers data at time timestamp
ReadSample ==
    /\ ReadSampleFrom(Readings, 1..MaxStep, MaxClock)
    /\ UNCHANGED nondaqvars

\* read_sample(): task.read() raises, "DAQ Error"
ReadSampleError ==
    /\ is_connected /\ is_recording
    /\ is_connected' = FALSE
    /\ op' = "read_sample error"
    /\ UNCHANGED <<is_recording, data_buffers, timestamps, start_time, sample_count,
                   door_open_count, last_door_state, overlap_start_time,
                   overlap_duration, clock, sample_data, log, fresh>>
    /\ UNCHANGED nondaqvars

DAQNext ==
    \/ Connect
    \/ Disconnect
    \/ StartRecording
    \/ StartRecordingRefused
    \/ StopRecording
    \/ ReadSampleIdle
    \/ ReadSample
    \/ ReadSampleError

\* MainWindow.__init__: no mode is selected yet
\* and every signal widget shows QLabel("OFF")
AppInit ==
    /\ current_mode = "None"
    /\ door_status = "OFF"

Init == SMInit /\ DAQInit /\ AppInit

SMSpec == Init /\ [][SMNext]_vars

\* the dicts passed to update() in the runs about liveness: one signal at a
\* time, nothing, and the lock combo together with an interaction
LiveSignals ==
    { NoSignals,
      [NoSignals EXCEPT !.start_pressed = TRUE],
      [NoSignals EXCEPT !.cancel_pressed = TRUE],
      [NoSignals EXCEPT !.knob_turned = TRUE],
      [NoSignals EXCEPT !.door_open = TRUE],
      [NoSignals EXCEPT !.lock_combo = TRUE],
      [NoSignals EXCEPT !.unlock_combo = TRUE],
      [NoSignals EXCEPT !.lock_combo = TRUE, !.knob_turned = TRUE] }

\* one call of update() a second after the last one: the driver's timer keeps
\* calling update while time advances
Tick ==
    /\ now < MaxNow
    /\ \E sig \in LiveSignals : UpdateWith(sig, now + 1)
    /\ UNCHANGED <<daqvars, defrostvars, pfvars, appvars>>

\* one more call of update() within the same second
SameSecond ==
    /\ \E sig \in LiveSignals : UpdateWith(sig, now)
    /\ UNCHANGED <<daqvars, defrostvars, pfvars, appvars>>

LiveNext ==
    \/ Tick
    \/ SameSecond

\* the state machine whose driver never stops calling update as time goes on
LiveSpec == Init /\ [][LiveNext]_vars /\ WF_vars(Tick)

\* the handler alone; the state machine is constructed and then left alone
DAQSpecInit == Init /\ sleep_timeout = MaxTimeout

DAQSpec == DAQSpecInit /\ [][DAQNext]_vars

(***************************************************************************)
(* Defrost schedule                                                        *)
(* The times of the schedule are IEEE-754 doubles.  A double is kept as    *)
(* the pair (x, e) that stands for the real number                         *)
(*     x / 10^4  +  e / (10^4 * 2^52)   seconds,                           *)
(* where x / 10^4 is the value in exact arithmetic and e is what the       *)
(* rounding of the floating-point operations has added to it.              *)
(***************************************************************************)
\* config.DEFROST_CONFIG; constant_factor in hundredths of a minute,
\* percentages in hundredths, powers in tenths of a percent
WEIGHT_STEP == 100
CONSTANT_FACTOR == 205
WEIGHT_RANGE == <<100, 2000>>
SectorConfigs ==
    << [name |-> "Sector 1", percentage |-> 14, power |-> 367,
        on_time |-> 11, off_time |-> 19, period |-> 30],
       [name |-> "Sector 2", percentage |-> 50, power |-> 233,
        on_time |-> 7, off_time |-> 23, period |-> 30],
       [name |-> "Sector 3", percentage |-> 36, power |-> 300,
        on_time |-> 9, off_time |-> 21, period |-> 30] >>

Double(x, e) == [x |-> x, e |-> e]

\* a < b and a <= b on doubles
Less(a, b) == a.x < b.x \/ (a.x = b.x /\ a.e < b.e)
Leq(a, b) == a.x < b.x \/ (a.x = b.x /\ a.e <= b.e)

\* the weights given to calculate_defrost_sectors in the model
DefrostWeights == {0, 99, 100, 101, 163, 1000, 2000, 2001}

\* what double arithmetic adds to total_time_seconds, to the three
\* sector_duration products and to the three cumulative_time sums, for the
\* weights of the model that are in range
RoundingError(w) ==
    CASE w = 100  -> [total |-> -640000, duration |-> <<-51200, -320000, -268800>>,
                      cumulative |-> <<-51200, -51200, 0>>]
      [] w = 101  -> [total |-> 179200, duration |-> <<114688, 89600, -25088>>,
                      cumulative |-> <<114688, 524288, 819200>>]
      [] w = 163  -> [total |-> -870400, duration |-> <<-256, -435200, -594944>>,
                      cumulative |-> <<-256, -915456, -2150400>>]
      [] w = 1000 -> [total |-> 0, duration |-> <<768000, 0, 512000>>,
                      cumulative |-> <<768000, 2048000, 0>>]
      [] w = 2000 -> [total |-> 0, duration |-> <<1536000, 0, 1024000>>,
                      cumulative |-> <<1536000, 4096000, 0>>]

\* total_time_seconds = constant * (weight_grams / weight_step) * 60
TotalTimeSeconds(w) ==
    Double(60 * ((CONSTANT_FACTOR * w * 100) \div WEIGHT_STEP), RoundingError(w).total)

\* sector_duration = total_time_seconds * percentage, for sector k
SectorDuration(w, k) ==
    Double((TotalTimeSeconds(w).x * SectorConfigs[k].percentage) \div 100,
           RoundingError(w).duration[k])

\* cumulative_time after k sectors
RECURSIVE CumulativeTime(_, _)
CumulativeTime(w, k) ==
    IF k = 0 THEN Double(0, 0)
    ELSE Double(CumulativeTime(w, k - 1).x + SectorDuration(w, k).x,
                RoundingError(w).cumulative[k])

\* one entry of the list of sectors
Sector(config, start, end, duration) ==
    [name |-> config.name, start_time |-> start, end_time |-> end,
     duration |-> duration, expected_power |-> config.power,
     on_time |-> config.on_time, off_time |-> config.off_time,
     period |-> config.period]

\* variant: cumulative_time is not advanced, every sector starts at 0
DefrostSectors_FromZero(w) ==
    [k \in 1..Len(SectorConfigs) |->
        Sector(SectorConfigs[k], Double(0, 0), SectorDuration(w, k), SectorDuration(w, k))]

\* "Calculate sector boundaries"
DefrostSectors(w) ==
    [k \in 1..Len(SectorConfigs) |->
        Sector(SectorConfigs[k], CumulativeTime(w, k - 1), CumulativeTime(w, k),
               SectorDuration(w, k))]

\* variant: the two ends of the weight range are refused as well
WeightRefused_AtBounds(w) == w <= WEIGHT_RANGE[1] \/ w >= WEIGHT_RANGE[2]

\* the range test on weight_grams
WeightRefused(w) == w < WEIGHT_RANGE[1] \/ w > WEIGHT_RANGE[2]

\* what calculate_defrost_sectors(w) returns: no sectors and the message
\* "Weight must be between 100-2000g", or the sectors and the total time
DefrostResult(w) ==
    IF WeightRefused(w)
    THEN [weight |-> w, ok |-> FALSE, sectors |-> <<>>,
          message |-> [text |-> "Weight must be between",
                       low |-> WEIGHT_RANGE[1], high |-> WEIGHT_RANGE[2]]]
    ELSE [weight |-> w, ok |-> TRUE, sectors |-> DefrostSectors(w),
          message |-> [text |-> "Total time", low |-> 0, high |-> 0]]

\* variant: a refused weight switches the schedule off
CalculateDefrostSectors_ClearsOnError ==
    \E w \in DefrostWeights :
        LET r == DefrostResult(w) IN
        /\ defrost_ret' = <<r>>
        /\ defrost_mode' = r.ok
        /\ defrost_weight' = (IF r.ok THEN w ELSE 0)
        /\ defrost_sectors' = r.sectors
        /\ UNCHANGED <<sector_ret, daqvars, smvars, pfvars, appvars>>

\* calculate_defrost_sectors(w)
CalculateDefrostSectors ==
    \E w \in DefrostWeights :
        LET r == DefrostResult(w) IN
        /\ defrost_ret' = <<r>>
        /\ IF r.ok
           THEN /\ defrost_mode' = TRUE
                /\ defrost_weight' = w
                /\ defrost_sectors' = r.sectors
           ELSE UNCHANGED <<defrost_mode, defrost_weight, defrost_sectors>>
        /\ UNCHANGED <<sector_ret, daqvars, smvars, pfvars, appvars>>

\* variant: a sector holds the instant of its end as well
CurrentDefrostSector_ClosedEnd(mode, sectors, t) ==
    IF ~mode THEN <<>>
    ELSE LET in(sec) == Leq(sec.start_time, t) /\ Leq(t, sec.end_time)
             hits    == SelectSeq(sectors, in)
         IN  IF hits = <<>> THEN <<>> ELSE <<hits[1]>>

\* get_current_defrost_sector(t): the first sector that holds t, if any
CurrentDefrostSector(mode, sectors, t) ==
    IF ~mode THEN <<>>
    ELSE LET in(sec) == Leq(sec.start_time, t) /\ Less(t, sec.end_time)
             hits    == SelectSeq(sectors, in)
         IN  IF hits = <<>> THEN <<>> ELSE <<hits[1]>>

\* the elapsed times asked about: whole seconds around 0, the starts and
\* ends of the sectors, one second before and after each end, and the
\* total time of the weight of the schedule
QueryTimes ==
    {Double(n * 10000, 0) : n \in -1..1}
    \cup {defrost_sectors[k].start_time : k \in 1..Len(defrost_sectors)}
    \cup {defrost_sectors[k].end_time : k \in 1..Len(defrost_sectors)}
    \cup {Double(defrost_sectors[k].end_time.x + d * 10000, 0) :
              k \in 1..Len(defrost_sectors), d \in {-1, 1}}
    \cup (IF defrost_mode THEN {TotalTimeSeconds(defrost_weight)} ELSE {})

\* get_current_defrost_sector(t)
GetCurrentDefrostSector ==
    \E t \in QueryTimes :
        /\ sector_ret' = <<[elapsed_time |-> t,
                            sector |-> CurrentDefrostSector(defrost_mode, defrost_sectors, t),
                            defrost_mode |-> defrost_mode,
                            defrost_weight |-> defrost_weight,
                            defrost_sectors |-> defrost_sectors]>>
        /\ UNCHANGED <<defrost_mode, defrost_weight, defrost_sectors, defrost_ret,
                       daqvars, smvars, pfvars, appvars>>

DefrostNext ==
    \/ CalculateDefrostSectors
    \/ GetCurrentDefrostSector

DefrostSpec == DAQSpecInit /\ [][DefrostNext]_vars

(***************************************************************************)
(* Pass/Fail analysis                                                      *)
(***************************************************************************)
\* config.PASS_FAIL_TOLERANCE, in percent
PASS_FAIL_TOLERANCE == 5

\* largest value of the clock in the runs that end with an analysis
PFMaxClock == 2

\* f"{power:.1f}": the power in tenths of a percent, rounded to the nearest
OneDecimal(power) == (20 * power.num + power.den) \div (2 * power.den)

\* variant: a power on a bound of the tolerance band is outside the band
Within_Exclusive(lower, measured, upper) ==
    lower * measured.den < measured.num /\ measured.num < upper * measured.den

\* lower <= measured <= upper, measured being a fraction
Within(lower, measured, upper) ==
    lower * measured.den <= measured.num /\ measured.num <= upper * measured.den

\* one line of results['details']
Detail(kind, mark, value, expected) ==
    [kind |-> kind, mark |-> mark, value |-> value, expected |-> expected,
     tolerance |-> PASS_FAIL_TOLERANCE]

\* "Check MW power" / "Check Grill power" against a number
CheckPower(kind, expected, measured) ==
    LET lower == expected - PASS_FAIL_TOLERANCE
        upper == expected + PASS_FAIL_TOLERANCE
    IN  IF Within(lower, measured, upper)
        THEN [result |-> "PASS",
              details |-> <<Detail(kind, "pass", OneDecimal(measured), expected)>>]
        ELSE [result |-> "FAIL",
              details |-> <<Detail(kind, "fail", OneDecimal(measured), expected)>>]

NotChecked == [result |-> "N/A", details |-> <<>>]

\* variant: a failed Grill check leaves the overall result alone
OverallResult_MwOnly(mw_result, grill_result) ==
    IF mw_result = "FAIL" THEN "FAIL" ELSE "PASS"

\* overall_result starts as PASS and is set to FAIL by each failed check
OverallResult(mw_result, grill_result) ==
    IF mw_result = "FAIL" \/ grill_result = "FAIL" THEN "FAIL" ELSE "PASS"

\* variant: an opened door fails the test
AnalyzePassFail_DoorFails(buffers, expected_mw, expected_grill, door_opens) ==
    LET powers == CalculatePowers(buffers)
        mw     == IF expected_mw.tag = "num"
                  THEN CheckPower("MW Power", expected_mw.value, powers["Microwave"])
                  ELSE NotChecked
        grill  == IF expected_grill.tag # "None"
                  THEN CheckPower("Grill Power", expected_grill.value, powers["Grill"])
                  ELSE NotChecked
        door   == IF door_opens > 0
                  THEN <<Detail("Door opened", "warn", door_opens, 0)>> ELSE <<>>
    IN  [overall_result |-> IF door_opens > 0 THEN "FAIL"
                            ELSE OverallResult(mw.result, grill.result),
         mw_result      |-> mw.result,
         grill_result   |-> grill.result,
         mw_measured    |-> powers["Microwave"],
         grill_measured |-> powers["Grill"],
         mw_expected    |-> expected_mw,
         grill_expected |-> expected_grill,
         details        |-> mw.details \o grill.details \o door]

\* analyze_pass_fail() on a handler with these buffers, expectations and
\* door count; the MW check is skipped for None and for 'variable', the
\* Grill check for None
AnalyzePassFail(buffers, expected_mw, expected_grill, door_opens) ==
    LET powers == CalculatePowers(buffers)
        mw     == IF expected_mw.tag = "num"
                  THEN CheckPower("MW Power", expected_mw.value, powers["Microwave"])
                  ELSE NotChecked
        grill  == IF expected_grill.tag # "None"
                  THEN CheckPower("Grill Power", expected_grill.value, powers["Grill"])
                  ELSE NotChecked
        door   == IF door_opens > 0
                  THEN <<Detail("Door opened", "warn", door_opens, 0)>> ELSE <<>>
    IN  [overall_result |-> OverallResult(mw.result, grill.result),
         mw_result      |-> mw.result,
         grill_result   |-> grill.result,
         mw_measured    |-> powers["Microwave"],
         grill_measured |-> powers["Grill"],
         mw_expected    |-> expected_mw,
         grill_expected |-> expected_grill,
         details        |-> mw.details \o grill.details \o door]

\* the expectations a driver gives the handler: on and next to the ends of
\* the band around a measured power of 50, and the two that mean "not checked"
MwExpectations == {NoExpectation, Variable} \cup {Expect(n) : n \in {45, 56}}
GrillExpectations == {NoExpectation, Variable} \cup {Expect(n) : n \in {44, 55}}

\* the driver sets expected_mw_power and expected_grill_power before the
\* first run
SetExpectations ==
    /\ start_time = NoTime
    /\ expected_mw_power' \in MwExpectations
    /\ expected_grill_power' \in GrillExpectations
    /\ op' = "set expectations"
    /\ UNCHANGED <<is_connected, is_recording, data_buffers, timestamps, start_time,
                   sample_count, door_open_count, last_door_state, overlap_start_time,
                   overlap_duration, clock, sample_data, log, fresh>>
    /\ UNCHANGED <<results, smvars, defrostvars, appvars>>

\* read_sample() in the runs that end with an analysis
PFReadSample ==
    /\ ReadSampleFrom(Readings, {1}, PFMaxClock)
    /\ UNCHANGED nondaqvars

\* the Grill check only tests "is not None": with the string 'variable' it
\* computes 'variable' - tolerance, which raises TypeError
AnalyzeRaises(expected_grill) == expected_grill = Variable

\* analyze_pass_fail(): returns the results, or raises
AnalyzePassFailCall ==
    /\ IF AnalyzeRaises(expected_grill_power)
       THEN /\ results' = results
            /\ op' = "analyze_pass_fail raised"
       ELSE /\ results' = <<AnalyzePassFail(data_buffers, expected_mw_power,
                                            expected_grill_power, door_open_count)>>
            /\ op' = "analyze_pass_fail"
    /\ UNCHANGED <<is_connected, is_recording, data_buffers, timestamps, start_time,
                   sample_count, door_open_count, last_door_state, overlap_start_time,
                   overlap_duration, clock, sample_data, log, fresh>>
    /\ UNCHANGED <<expected_mw_power, expected_grill_power, smvars, defrostvars, appvars>>

PassFailNext ==
    \/ Connect
    \/ SetExpectations
    \/ StartRecording
    \/ PFReadSample
    \/ AnalyzePassFailCall

PassFailSpec == DAQSpecInit /\ [][PassFailNext]_vars

(***************************************************************************)
(* MainWindow.update_display: one timer tick of the application            *)
(***************************************************************************)
\* MicrowaveStateMachine(sleep_timeout=900)
APP_SLEEP_TIMEOUT == 900

\* largest value of the clock in the runs with the wide readings
WideMaxClock == 2

\* "Set status and style" for the Door SW widget
DoorStatus(voltage) ==
    IF 0 <= voltage /\ voltage < 50 THEN "ON"
    ELSE IF 450 <= voltage /\ voltage <= 500 THEN "OFF"
    ELSE "Unknown"

\* "Map DAQ voltages to logical signals"
DaqSignals(voltages) ==
    [NoSignals EXCEPT !.door_open = voltages["Door SW"] >= ON_THRESHOLD,
                      !.start_pressed = voltages["Buzzer"] >= ON_THRESHOLD]

\* update_display() when read_sample() delivers a sample
UpdateDisplayFrom(readings, steps, limit) ==
    /\ ReadSampleFrom(readings, steps, limit)
    /\ UpdateWith(DaqSignals(sample_data'.voltages), clock')
    /\ door_status' = DoorStatus(sample_data'.voltages["Door SW"])

\* voltages around the two ends of the valid range
RangeProbes == {-51, -50, 550, 551}

\* door voltages around 0 V, 0.5 V, 4.5 V, the ON threshold and 5.0 V
DoorProbes == {-10, 0, 49, 50, 51, 200, 449, 450, 459, 460, 500, 501}

\* readings with the door anywhere, with one channel at an end of the
\* range, with all channels there, and with two channels beyond the two ends
WideReadings ==
    {Reading(d, 0, 0) : d \in DoorProbes}
    \cup {[Reading(30, 0, 0) EXCEPT ![c] = v] : c \in ChannelNames, v \in RangeProbes}
    \cup {[c \in ChannelNames |-> v] : v \in RangeProbes}
    \cup {[Reading(200, 0, 0) EXCEPT !["Lamp"] = -51, !["Buzzer"] = 551]}

\* update_display() on a timer tick, with the wide readings
WideUpdateDisplay ==
    /\ UpdateDisplayFrom(WideReadings, {1}, WideMaxClock)
    /\ UNCHANGED <<defrostvars, pfvars, current_mode>>

WideNext ==
    \/ Connect
    \/ StartRecording
    \/ WideUpdateDisplay

\* MainWindow.__init__: the handler, the window and its state machine
AppSpecInit ==
    /\ DAQInit
    /\ AppInit
    /\ state = "IDLE"
    /\ locked = FALSE
    /\ now = 0
    /\ last_interaction = 0
    /\ sleep_timeout = APP_SLEEP_TIMEOUT
    /\ daq_signals = NoSignals
    /\ prev = Machine("IDLE", FALSE, 0, APP_SLEEP_TIMEOUT)
    /\ scenario = 0

WideSpec == AppSpecInit /\ [][WideNext]_vars

(***************************************************************************)
(* MainWindow: selecting a mode, starting and stopping a recording         *)
(***************************************************************************)
\* largest value of the clock in the runs of the application
AppMaxClock == 2

\* the placeholder entry of the mode selector
SelectTestMode == "-- Select Test Mode --"

\* entries of MODE_CONFIGS: the placeholder, the two manual modes, one
\* combination mode, Defrost and Normal (the other combination and the auto
\* menus have the keys of "Manual: Grill" or of the combination)
Modes ==
    {SelectTestMode, "Manual: Microwave", "Manual: Grill",
     "Combination: C1 (20% MW / 80% Grill)", "Defrost", "Normal"}

\* MODE_CONFIGS[mode]: its type and its expectation keys; has tells which
\* of 'expected_power' and 'expected_mw' the entry has
ModeConfig(mode) ==
    CASE mode = "Manual: Microwave" ->
            [type |-> "manual_mw", has |-> "expected_power", expected_power |-> Variable,
             expected_mw |-> NoExpectation, expected_grill |-> NoExpectation]
      [] mode = "Manual: Grill" ->
            [type |-> "manual_grill", has |-> "expected_power", expected_power |-> Expect(100),
             expected_mw |-> NoExpectation, expected_grill |-> NoExpectation]
      [] mode = "Combination: C1 (20% MW / 80% Grill)" ->
            [type |-> "combination", has |-> "expected_mw", expected_power |-> NoExpectation,
             expected_mw |-> Expect(20), expected_grill |-> Expect(80)]
      [] mode = "Defrost" ->
            [type |-> "defrost", has |-> "none", expected_power |-> NoExpectation,
             expected_mw |-> NoExpectation, expected_grill |-> NoExpectation]
      [] mode = "Normal" ->
            [type |-> "normal", has |-> "none", expected_power |-> NoExpectation,
             expected_mw |-> NoExpectation, expected_grill |-> NoExpectation]
      [] OTHER ->
            [type |-> "none", has |-> "none", expected_power |-> NoExpectation,
             expected_mw |-> NoExpectation, expected_grill |-> NoExpectation]

\* "Set expected values": the expectations of the handler after the start
\* of a recording in a mode with this config
ExpectedAfterStart(config, mw, grill) ==
    IF config.has = "expected_power"
    THEN IF config.expected_power # Variable
         THEN [mw |-> config.expected_power, grill |-> NoExpectation]
         ELSE [mw |-> mw, grill |-> grill]
    ELSE IF config.has = "expected_mw"
         THEN [mw |-> config.expected_mw, grill |-> config.expected_grill]
         ELSE [mw |-> NoExpectation, grill |-> NoExpectation]

\* _connect_daq(), called once by MainWindow.__init__
ConnectDaq ==
    /\ op = "init"
    /\ Connect

\* _on_mode_changed(mode): the selector is disabled while recording
OnModeChanged ==
    /\ ~is_recording
    /\ \E mode \in Modes : current_mode' = mode
    /\ UNCHANGED <<door_status, daqvars, smvars, defrostvars, pfvars>>

\* MainWindow.start_recording() with the DAQ connected and a test mode
\* selected (with no mode ever selected current_config is None and the
\* handler raises); the start button is disabled while recording.  In
\* Defrost mode the dialog is accepted with a weight in range, or cancelled.
AppStartRecording ==
    /\ ~is_recording
    /\ is_connected
    /\ current_mode \notin {"None", SelectTestMode}
    /\ LET config   == ModeConfig(current_mode)
           expected == ExpectedAfterStart(config, expected_mw_power, expected_grill_power)
       IN  /\ expected_mw_power' = expected.mw
           /\ expected_grill_power' = expected.grill
           /\ IF config.type = "defrost"
              THEN \/ \E w \in {v \in DefrostWeights : ~WeightRefused(v)} :
                        /\ defrost_mode' = TRUE
                        /\ defrost_weight' = w
                        /\ defrost_sectors' = DefrostSectors(w)
                        /\ StartRecordingStep
                   \/ UNCHANGED <<defrost_mode, defrost_weight, defrost_sectors, daqvars>>
              ELSE /\ UNCHANGED <<defrost_mode, defrost_weight, defrost_sectors>>
                   /\ StartRecordingStep
    /\ UNCHANGED <<defrost_ret, sector_ret, results, smvars, appvars>>

\* update_display() on a timer tick of a recording
UpdateDisplay ==
    /\ UpdateDisplayFrom(Readings, {1}, AppMaxClock)
    /\ UNCHANGED <<defrostvars, pfvars, current_mode>>

\* variant: after a failed read the handler stays connected and the run
\* goes on
UpdateDisplayError_GoesOn ==
    /\ is_connected /\ is_recording
    /\ op' = "read_sample error"
    /\ UNCHANGED <<is_connected, is_recording, data_buffers, timestamps, start_time,
                   sample_count, door_open_count, last_door_state, overlap_start_time,
                   overlap_duration, clock, sample_data, log, fresh>>
    /\ UNCHANGED nondaqvars

\* update_display() when read_sample() fails: the handler is disconnected
\* and MainWindow.stop_recording() ends the recording
UpdateDisplayError ==
    /\ is_connected /\ is_recording
    /\ is_connected' = FALSE
    /\ is_recording' = FALSE
    /\ op' = "read_sample error"
    /\ results' = <<AnalyzePassFail(data_buffers, expected_mw_power,
                                    expected_grill_power, door_open_count)>>
    /\ UNCHANGED <<data_buffers, timestamps, start_time, sample_count,
                   door_open_count, last_door_state, overlap_start_time,
                   overlap_duration, clock, sample_data, log, fresh>>
    /\ UNCHANGED <<expected_mw_power, expected_grill_power, smvars, defrostvars, appvars>>

\* MainWindow.stop_recording(): the stop button is enabled while recording
AppStopRecording ==
    /\ is_recording
    /\ is_recording' = FALSE
    /\ op' = "stop_recording"
    /\ results' = <<AnalyzePassFail(data_buffers, expected_mw_power,
                                    expected_grill_power, door_open_count)>>
    /\ UNCHANGED <<is_connected, data_buffers, timestamps, start_time, sample_count,
                   door_open_count, last_door_state, overlap_start_time,
                   overlap_duration, clock, sample_data, log, fresh>>
    /\ UNCHANGED <<expected_mw_power, expected_grill_power, smvars, defrostvars, appvars>>

AppNext ==
    \/ ConnectDaq
    \/ OnModeChanged
    \/ AppStartRecording
    \/ UpdateDisplay
    \/ UpdateDisplayError
    \/ AppStopRecording

AppSpec == AppSpecInit /\ [][AppNext]_vars

\* the window and the handler over several recordings in several modes, with
\* the defrost sector asked for at any moment
ModeNext ==
    \/ ConnectDaq
    \/ OnModeChanged
    \/ AppStartRecording
    \/ AppStopRecording
    \/ GetCurrentDefrostSector

ModeSpec == AppSpecInit /\ [][ModeNext]_vars

\* MainWindow.save_data() with a file name chosen: the save button is
\* enabled once a recording has been stopped; with no data it returns
\* before the analysis; otherwise analyze_pass_fail() is called again
SaveData ==
    /\ ~is_recording
    /\ results # <<>>
    /\ Len(timestamps) > 0
    /\ results' = <<AnalyzePassFail(data_buffers, expected_mw_power,
                                    expected_grill_power, door_open_count)>>
    /\ op' = "save_data"
    /\ UNCHANGED <<is_connected, is_recording, data_buffers, timestamps, start_time,
                   sample_count, door_open_count, last_door_state, overlap_start_time,
                   overlap_duration, clock, sample_data, log, fresh>>
    /\ UNCHANGED <<expected_mw_power, expected_grill_power, smvars, defrostvars, appvars>>

\* the window over recordings that are stopped and then saved
SaveNext ==
    \/ ConnectDaq
    \/ OnModeChanged
    \/ AppStartRecording
    \/ UpdateDisplay
    \/ AppStopRecording
    \/ SaveData

SaveSpec == AppSpecInit /\ [][SaveNext]_vars

(***************************************************************************)
(* The handler under a driver that reads through update_display: device    *)
(* faults, calls on a disconnected handler, reconnection                   *)
(***************************************************************************)
\* largest value of the clock in the runs with device faults
FaultMaxClock == 2

\* largest value of the clock in the runs where the checks fire together
WarnMaxClock == 4

\* update_display() on a timer tick of a recording
FaultUpdateDisplay ==
    /\ UpdateDisplayFrom(Readings, {1}, FaultMaxClock)
    /\ UNCHANGED <<defrostvars, pfvars, current_mode>>

FaultNext ==
    \/ Connect
    \/ StartRecording
    \/ StartRecordingRefused
    \/ ReadSampleIdle
    \/ FaultUpdateDisplay
    \/ UpdateDisplayError

FaultSpec == AppSpecInit /\ [][FaultNext]_vars

\* read_sample() when task.read() delivers only the first k values of a
\* reading, k smaller than the number of channels: the timestamp and the
\* first k channels are stored, data[k] raises, "DAQ Error"
ReadSampleShort ==
    /\ is_connected /\ is_recording
    /\ \E data \in Readings, k \in 0..(Len(Channels) - 1), dt \in 1..MaxStep :
        LET timestamp == clock + dt IN
        /\ timestamp <= FaultMaxClock
        /\ clock' = timestamp
        /\ timestamps' = DequeAppend(timestamps, timestamp)
        /\ data_buffers' =
              [c \in ChannelNames |->
                  IF \E i \in 1..k : Channels[i] = c
                  THEN DequeAppend(data_buffers[c], data[c])
                  ELSE data_buffers[c]]
    /\ is_connected' = FALSE
    /\ op' = "read_sample error"
    /\ UNCHANGED <<is_recording, start_time, sample_count, door_open_count,
                   last_door_state, overlap_start_time, overlap_duration,
                   sample_data, log, fresh>>
    /\ UNCHANGED nondaqvars

\* read_sample() with a whole reading, in the runs with short readings
ShortReadSample ==
    /\ ReadSampleFrom(Readings, 1..MaxStep, FaultMaxClock)
    /\ UNCHANGED nondaqvars

ShortNext ==
    \/ Connect
    \/ StartRecording
    \/ ShortReadSample
    \/ ReadSampleError
    \/ ReadSampleShort

\* the handler alone, when the device fails or delivers too few values
ShortSpec == DAQSpecInit /\ [][ShortNext]_vars

(***************************************************************************)
(* The handler with readings at which the three checks of _check_warnings  *)
(* fire together                                                           *)
(***************************************************************************)
\* readings of task.read(): all quiet; both relays ON, in range; the door
\* open alone; every channel at 5.51 V; door open, relays ON, with Lamp, Grill
\* and Buzzer beyond the range; door open and beyond the range with Buzzer
WarnReadings ==
    { Reading(30, 0, 0),
      Reading(30, 460, 460),
      Reading(490, 0, 0),
      [c \in ChannelNames |-> 551],
      [Reading(490, 460, 551) EXCEPT !["Lamp"] = -51, !["Buzzer"] = 600],
      [Reading(551, 0, 0) EXCEPT !["Buzzer"] = -51] }

\* read_sample() with these readings
WarnReadSample ==
    /\ ReadSampleFrom(WarnReadings, 1..MaxStep, WarnMaxClock)
    /\ UNCHANGED nondaqvars

WarnNext ==
    \/ Connect
    \/ StartRecording
    \/ WarnReadSample

WarnSpec == DAQSpecInit /\ [][WarnNext]_vars

(***************************************************************************)
(* Claims about the state machine, checked under SMSpec.                   *)
(* prev, daq_signals and now describe the last update: the machine it      *)
(* found, the inputs it was given and the time it read.                    *)
(***************************************************************************)
\* time since the last interaction, as the last update found it
Elapsed == now - prev.last_interaction

\* C1: from a fresh machine, with the timeout never exceeded, the ticks
\* start (door closed), door_open, start (door closed), cancel, lock_combo,
\* anything without unlock_combo, unlock_combo give the states
\* RUN, PAUSE, RUN, IDLE, LOCKED, LOCKED, IDLE in that order.
C1_EndToEnd == scenario \in 1..ScenarioLength => state = ScenarioStates[scenario]

C1_Witness == scenario = ScenarioLength /\ state = "IDLE" /\ prev.state = "LOCKED"

\* C2: a LOCKED machine stays LOCKED on every update without unlock_combo,
\* whatever the other inputs and the elapsed time; with unlock_combo it goes
\* to IDLE and the inactivity timer is set to the current time.
C2_LockedUntilUnlock ==
    prev.state = "LOCKED" =>
        IF daq_signals.unlock_combo
        THEN state = "IDLE" /\ last_interaction = now /\ ~locked
        ELSE state = "LOCKED" /\ locked

C2_Witness ==
    /\ prev.state = "LOCKED" /\ state = "LOCKED"
    /\ ~daq_signals.unlock_combo
    /\ daq_signals.start_pressed /\ daq_signals.door_open
    /\ Elapsed > sleep_timeout

\* C3: from IDLE, RUN, PAUSE and SLEEP an update with lock_combo ends in
\* LOCKED, whatever the other inputs and the elapsed time.
C3_LockComboLocks ==
    (prev.state \in {"IDLE", "RUN", "PAUSE", "SLEEP"} /\ daq_signals.lock_combo)
        => state = "LOCKED"

C3_Witness ==
    /\ prev.state = "RUN" /\ daq_signals.lock_combo /\ ~AnyInteraction(daq_signals)
    /\ Elapsed > sleep_timeout
    /\ state = "LOCKED"

\* C4: in a non-locked state, an update without interaction signal and
\* without lock_combo ends in SLEEP when the time since the last interaction
\* is strictly greater than sleep_timeout, and does not enter SLEEP when it
\* is less than or equal to sleep_timeout.
C4_SleepAfterTimeout ==
    (prev.state # "LOCKED" /\ ~AnyInteraction(daq_signals) /\ ~daq_signals.lock_combo)
        => /\ Elapsed > sleep_timeout => state = "SLEEP"
           /\ Elapsed <= sleep_timeout => (state = "SLEEP" => prev.state = "SLEEP")

C4_Witness ==
    /\ prev.state = "RUN" /\ ~AnyInteraction(daq_signals) /\ ~daq_signals.lock_combo
    /\ Elapsed > sleep_timeout
    /\ state = "SLEEP"

\* C5: from SLEEP, an update with any of start_pressed, cancel_pressed,
\* knob_turned, door_open (lock_combo false) ends in IDLE and resets the
\* inactivity timer.
C5_WakeToIdle ==
    (prev.state = "SLEEP" /\ AnyInteraction(daq_signals) /\ ~daq_signals.lock_combo)
        => state = "IDLE" /\ last_interaction = now

\* the table of C6: the state after an update that found state st
StateRule(st, sig) ==
    CASE st = "IDLE"  -> IF sig.start_pressed /\ ~sig.door_open THEN "RUN" ELSE "IDLE"
      [] st = "RUN"   -> IF sig.door_open THEN "PAUSE"
                         ELSE IF sig.cancel_pressed THEN "IDLE" ELSE "RUN"
      [] st = "PAUSE" -> IF sig.start_pressed /\ ~sig.door_open THEN "RUN"
                         ELSE IF sig.cancel_pressed THEN "IDLE" ELSE "PAUSE"

\* C6: not locked, lock_combo false, timeout not elapsed: the state changes
\* among IDLE, RUN and PAUSE are exactly IDLE->RUN iff start and door closed,
\* RUN->PAUSE on door_open, RUN->IDLE on cancel, PAUSE->RUN iff start and
\* door closed, PAUSE->IDLE on cancel; anything else keeps the state.
C6_StateRules ==
    (/\ prev.state \in {"IDLE", "RUN", "PAUSE"}
     /\ ~daq_signals.lock_combo
     /\ (AnyInteraction(daq_signals) \/ Elapsed <= sleep_timeout))
        => state = StateRule(prev.state, daq_signals)

C6_Witness ==
    /\ prev.state = "PAUSE" /\ daq_signals.door_open /\ daq_signals.start_pressed
    /\ daq_signals.cancel_pressed /\ ~daq_signals.lock_combo
    /\ state = "IDLE"

(***************************************************************************)
(* Claims about the handler, checked under DAQSpec.                        *)
(* log holds every sample of the current recording, also those the deques  *)
(* have evicted; n = Len(log) is the number of recorded samples.           *)
(***************************************************************************)
PowerChannels == {"Microwave", "Grill"}

Min(a, b) == IF a <= b THEN a ELSE b

\* the number of ON samples of channel c among the last w recorded samples
OnAmongLast(c, w) ==
    Cardinality({i \in (Len(log) - w + 1)..Len(log) : log[i].voltages[c] >= ON_THRESHOLD})

\* the live power of channel c as the claim states it: (percent, window size)
StatedPower(c) ==
    LET w == Min(POWER_CALC_WINDOW, Len(log)) IN
    IF Len(log) = 0 THEN <<Percent(0, 0), 0>>
    ELSE <<Percent(OnAmongLast(c, w), w), w>>

\* C7: after n >= 0 recorded samples the live power of Microwave and of Grill
\* is 100 x (ON samples among the last min(W, n)) / min(W, n) with window
\* size min(W, n), and (0, 0) when n = 0; read_sample returns these values.
C7_LivePower ==
    LET powers == CalculatePowers(data_buffers) IN
    /\ <<powers.Microwave, powers.Microwave_samples>> = StatedPower("Microwave")
    /\ <<powers.Grill, powers.Grill_samples>> = StatedPower("Grill")
    /\ op = "read_sample" => sample_data.powers = powers

C7_Witness ==
    /\ op = "read_sample"
    /\ Len(log) > BUFFER_MAXLEN
    /\ log[1].voltages["Microwave"] < ON_THRESHOLD
    /\ log[Len(log) - POWER_CALC_WINDOW].voltages["Microwave"] < ON_THRESHOLD
    /\ sample_data.powers.Microwave = Percent(1, 1)
    /\ sample_data.powers.Microwave_samples = POWER_CALC_WINDOW
    /\ sample_data.powers.Grill # Percent(1, 1)

\* C8: while the history has not overflowed, row i of get_all_data carries
\* the Microwave and Grill powers read_sample returned when sample i was
\* acquired.
C8_ExportMatchesLive ==
    Len(log) <= BUFFER_MAXLEN =>
        LET rows == GetAllData(data_buffers, timestamps, start_time) IN
        /\ Len(rows) = Len(log)
        /\ \A k \in 1..Len(rows) :
              /\ rows[k].MW_Power = log[k].powers.Microwave
              /\ rows[k].Grill_Power = log[k].powers.Grill

\* both relays ON at tick k of the recording
BothOn(k) ==
    /\ log[k].voltages["Microwave"] >= ON_THRESHOLD
    /\ log[k].voltages["Grill"] >= ON_THRESHOLD

\* the first tick of the run of simultaneous ON that tick k belongs to
RunStart(k) == CHOOSE j \in 1..k :
    /\ \A i \in j..k : BothOn(i)
    /\ j = 1 \/ ~BothOn(j - 1)

OverlapWarned(k) ==
    \E i \in 1..Len(log[k].warnings) : log[k].warnings[i].kind = "overlap"

\* C9: with the overlap tracker clear when the recording starts, a tick emits
\* the overlap warning iff Microwave and Grill are both ON at it and the time
\* since the first tick of the current run of simultaneous ON is strictly
\* greater than OVERLAP_TOLERANCE.
C9_OverlapWarning ==
    fresh =>
        \A k \in 1..Len(log) :
            OverlapWarned(k) <=>
                /\ BothOn(k)
                /\ log[k].timestamp - log[RunStart(k)].timestamp > OVERLAP_TOLERANCE

C9_Witness ==
    /\ fresh /\ op = "read_sample"
    /\ \E k \in 4..Len(log) :
          /\ k = Len(log)
          /\ OverlapWarned(k)
          /\ RunStart(k) > 1 /\ ~BothOn(RunStart(k) - 1)
          /\ RunStart(k) < k - 1 /\ ~OverlapWarned(k - 1)

DoorWarned(sample) ==
    \E i \in 1..Len(sample.warnings) : sample.warnings[i].kind = "door opened"

DoorOpenAt(sample) == sample.voltages["Door SW"] >= ON_THRESHOLD

\* C10: a read_sample tick adds exactly 1 to door_open_count and emits the
\* door-opened warning iff the door is open at this tick and was not open at
\* the previous tick; at every other tick the counter is unchanged and there
\* is no door warning; the counter never decreases during a recording.
C10_DoorOpenEdge ==
    [][ /\ op' = "read_sample" =>
            IF DoorOpenAt(sample_data') /\ ~(sample_data # NoSample /\ DoorOpenAt(sample_data))
            THEN door_open_count' = door_open_count + 1 /\ DoorWarned(sample_data')
            ELSE door_open_count' = door_open_count /\ ~DoorWarned(sample_data')
        /\ op' # "start_recording" => door_open_count' >= door_open_count ]_vars

C10_Witness ==
    /\ op = "read_sample"
    /\ Len(log) >= 3
    /\ door_open_count = 1
    /\ DoorOpenAt(log[Len(log) - 2]) /\ DoorOpenAt(log[Len(log) - 1]) /\ DoorOpenAt(sample_data)
    /\ ~DoorWarned(sample_data)

(***************************************************************************)
(* Claims about the warnings and the door display, checked under WideSpec. *)
(***************************************************************************)
\* the out-of-range warnings of a sample, in their order
RangeWarnings(sample) ==
    SelectSeq(sample.warnings, LAMBDA w : w.kind = "out of range")

\* the channels of a sample that are beyond 5.5 V or below -0.5 V
BeyondRange(sample) ==
    {c \in ChannelNames : sample.voltages[c] > 550 \/ sample.voltages[c] < -50}

\* C11: at every tick the number of out-of-range warnings is the number of
\* channels with a voltage strictly above 5.5 V or strictly below -0.5 V,
\* one warning per such channel, naming the channel and its voltage; a
\* voltage of exactly 5.5 V or -0.5 V, or between them, gives no warning.
C11_OutOfRangeCount ==
    \A k \in 1..Len(log) :
        LET rw == RangeWarnings(log[k]) IN
        /\ Len(rw) = Cardinality(BeyondRange(log[k]))
        /\ {rw[i].channel : i \in 1..Len(rw)} = BeyondRange(log[k])
        /\ \A i \in 1..Len(rw) : rw[i].value = log[k].voltages[rw[i].channel]

\* a tick with every channel beyond the range, after a tick with a channel
\* exactly at 5.5 V and no warning
C11_Witness ==
    /\ Len(log) = 2
    /\ log[1].voltages["Lamp"] = 550 /\ RangeWarnings(log[1]) = <<>>
    /\ Len(RangeWarnings(log[2])) = Len(Channels)

\* C12: a sample whose Door voltage lies strictly between 0.5 V and 4.5 V
\* carries a warning about the door in its warning list, and the handler
\* goes on recording.
C12_DeadZoneWarned ==
    \A k \in 1..Len(log) :
        LET v == log[k].voltages["Door SW"] IN
        (50 < v /\ v < 450) =>
            /\ \E i \in 1..Len(log[k].warnings) : log[k].warnings[i].channel = "Door SW"
            /\ (k = Len(log) /\ op = "read_sample" => is_recording /\ is_connected)

\* C13: after a tick the door is shown closed ("ON") when its voltage is
\* below 0.5 V, open ("OFF") when it is from 4.5 V to 5.0 V, and "Unknown"
\* when it is strictly between 0.5 V and 4.5 V.
C13_DoorClassification ==
    op = "read_sample" =>
        LET v == sample_data.voltages["Door SW"] IN
        /\ (v < 50 => door_status = "ON")
        /\ (450 <= v /\ v <= 500 => door_status = "OFF")
        /\ (50 < v /\ v < 450 => door_status = "Unknown")

(***************************************************************************)
(* Claims about the defrost schedule, checked under DefrostSpec.           *)
(***************************************************************************)
\* C14: calculate_defrost_sectors(w) returns an error (no sectors, a message
\* that states the bounds 100 and 2000) exactly when w < 100 or w > 2000;
\* for every w from 100 to 2000, both included, it returns three sectors.
C14_WeightRange ==
    defrost_ret # <<>> =>
        LET r == defrost_ret[1]
            error == ~r.ok /\ r.sectors = <<>>
                     /\ r.message.low = 100 /\ r.message.high = 2000
        IN  /\ error <=> (r.weight < 100 \/ r.weight > 2000)
            /\ (100 <= r.weight /\ r.weight <= 2000) => (r.ok /\ Len(r.sectors) = 3)

\* both ends of the range have been scheduled, the second one last
C14_Witness ==
    /\ defrost_ret # <<>> /\ defrost_ret[1].weight = 2000
    /\ Len(defrost_ret[1].sectors) = 3
    /\ sector_ret # <<>> /\ sector_ret[1].sector # <<>>

\* a schedule has been returned by the last calculate_defrost_sectors
Scheduled == defrost_ret # <<>> /\ defrost_ret[1].ok

\* the first sector starts at 0, each later sector starts exactly at the end
\* of the one before, no sector ends before it starts, and the percentages
\* sum to 1
Contiguous(sectors) ==
    /\ sectors[1].start_time = Double(0, 0)
    /\ \A k \in 2..Len(sectors) : sectors[k].start_time = sectors[k - 1].end_time
    /\ \A k \in 1..Len(sectors) : Leq(sectors[k].start_time, sectors[k].end_time)
    /\ SectorConfigs[1].percentage + SectorConfigs[2].percentage
         + SectorConfigs[3].percentage = 100

\* C15 as stated: for every weight from 100 to 2000 the first sector starts
\* at 0, each later sector starts exactly at the end of the one before, every
\* end is >= its start, the end of the last sector equals the total time
\* 2.05 x (w/100) x 60 seconds, and the percentages sum to 1.
C15_EndEqualsTotal ==
    Scheduled =>
        LET r == defrost_ret[1] IN
        /\ Contiguous(r.sectors)
        /\ r.sectors[Len(r.sectors)].end_time = TotalTimeSeconds(r.weight)

\* C15 amended: as stated, except that the end of the last sector equals the
\* total time up to the rounding of the floating-point sums: the two are
\* within 1e-12 seconds of each other.
C15_EndNearTotal ==
    Scheduled =>
        LET r     == defrost_ret[1]
            last  == r.sectors[Len(r.sectors)].end_time
            total == TotalTimeSeconds(r.weight)
        IN  /\ Contiguous(r.sectors)
            /\ last.x = total.x
            /\ last.e - total.e <= 45035996 /\ total.e - last.e <= 45035996

\* a schedule whose last end is not the double of the total time
C15_Witness ==
    /\ Scheduled
    /\ defrost_ret[1].sectors[3].end_time # TotalTimeSeconds(defrost_ret[1].weight)
    /\ defrost_ret[1].sectors[2].start_time # Double(0, 0)

\* the last call of get_current_defrost_sector
Asked == sector_ret[1]

\* the sectors of the schedule asked about that hold t in [start, end)
Holding(t) ==
    {k \in 1..Len(Asked.defrost_sectors) :
        /\ Leq(Asked.defrost_sectors[k].start_time, t)
        /\ Less(t, Asked.defrost_sectors[k].end_time)}

\* the answer for t is the one sector that holds t when 0 <= t < limit, and
\* none when t >= limit or t < 0
SectorUpTo(limit, t, answer) ==
    IF Leq(Double(0, 0), t) /\ Less(t, limit)
    THEN /\ answer # <<>>
         /\ \E k \in Holding(t) : answer[1] = Asked.defrost_sectors[k] /\ Holding(t) = {k}
    ELSE answer = <<>>

\* C16 as stated: with a schedule for weight w, get_current_defrost_sector(t)
\* returns, for 0 <= t < total_time, the unique sector with start <= t < end
\* (an instant on a boundary belongs to the later sector), and none for
\* t >= total_time, for t < 0 and whenever no schedule is active.
C16_SectorUpToTotal ==
    sector_ret # <<>> =>
        IF Asked.defrost_mode
        THEN SectorUpTo(TotalTimeSeconds(Asked.defrost_weight),
                        Asked.elapsed_time, Asked.sector)
        ELSE Asked.sector = <<>>

\* C16 amended: as stated, with the end of the last sector in the place of
\* total_time (the two differ by the rounding of the floating-point sums).
C16_SectorUpToLastEnd ==
    sector_ret # <<>> =>
        IF Asked.defrost_mode
        THEN SectorUpTo(Asked.defrost_sectors[Len(Asked.defrost_sectors)].end_time,
                        Asked.elapsed_time, Asked.sector)
        ELSE Asked.sector = <<>>

\* the instant where sector 1 ends has been asked about and belongs to sector 2
C16_Witness ==
    /\ sector_ret # <<>> /\ Asked.defrost_mode
    /\ Asked.elapsed_time = Asked.defrost_sectors[1].end_time
    /\ Asked.sector = <<Asked.defrost_sectors[2]>>

(***************************************************************************)
(* Claims about the Pass/Fail analysis, checked under PassFailSpec.        *)
(***************************************************************************)
\* analyze_pass_fail has just returned
Analyzed == op = "analyze_pass_fail"

\* a checked result is PASS exactly when e - 5 <= measured <= e + 5, and
\* FAIL otherwise
BandVerdict(expected, measured, result) ==
    LET inside == /\ (expected.value - 5) * measured.den <= measured.num
                  /\ measured.num <= (expected.value + 5) * measured.den
    IN  /\ result = "PASS" <=> inside
        /\ result = "FAIL" <=> ~inside

\* C17: for every checked sub-metric (MW or Grill) with a numeric expectation
\* e and the tolerance 5, analyze_pass_fail reports PASS exactly when
\* e - 5 <= measured <= e + 5, both bounds included, and FAIL otherwise.
C17_ToleranceBand ==
    Analyzed =>
        LET r == results[1] IN
        /\ expected_mw_power.tag = "num" =>
               BandVerdict(expected_mw_power, r.mw_measured, r.mw_result)
        /\ expected_grill_power.tag = "num" =>
               BandVerdict(expected_grill_power, r.grill_measured, r.grill_result)

\* MW measured exactly at e + 5 and Grill exactly at e - 5, both PASS
C17_Witness ==
    /\ Analyzed
    /\ expected_mw_power = Expect(45) /\ results[1].mw_measured = Percent(1, 2)
    /\ results[1].mw_result = "PASS"
    /\ expected_grill_power = Expect(55) /\ results[1].grill_measured = Percent(1, 2)
    /\ results[1].grill_result = "PASS"

\* C18: the overall result is FAIL exactly when mw_result is FAIL or
\* grill_result is FAIL, and PASS in every other case, also when both are
\* N/A.
C18_OverallResult ==
    Analyzed =>
        LET r == results[1]
            failed == r.mw_result = "FAIL" \/ r.grill_result = "FAIL"
        IN  /\ r.overall_result = "FAIL" <=> failed
            /\ r.overall_result = "PASS" <=> ~failed

\* only the Grill check failed, and the overall result is FAIL
C18_Witness ==
    /\ Analyzed
    /\ results[1].mw_result = "PASS" /\ results[1].grill_result = "FAIL"
    /\ results[1].overall_result = "FAIL"

\* the analysis of the handler as it is, but with the door count d
WithDoorCount(d) ==
    AnalyzePassFail(data_buffers, expected_mw_power, expected_grill_power, d)

\* C19: two handler states that differ only in door_open_count get the same
\* overall_result, mw_result and grill_result; a count above 0 only adds one
\* detail line.
C19_DoorCountNeutral ==
    Analyzed =>
        /\ results[1] = WithDoorCount(door_open_count)
        /\ \A d \in 0..(door_open_count + 1) :
              /\ WithDoorCount(d).overall_result = results[1].overall_result
              /\ WithDoorCount(d).mw_result = results[1].mw_result
              /\ WithDoorCount(d).grill_result = results[1].grill_result
              /\ Len(WithDoorCount(d).details)
                    = Len(WithDoorCount(0).details) + (IF d > 0 THEN 1 ELSE 0)

\* the door was opened during a run whose analysis says PASS
C19_Witness ==
    /\ Analyzed
    /\ door_open_count > 0
    /\ results[1].overall_result = "PASS" /\ results[1].mw_result = "PASS"
    /\ results[1].details[Len(results[1].details)].kind = "Door opened"

(***************************************************************************)
(* Claims about the application, checked under AppSpec.                    *)
(***************************************************************************)
\* C20: a recording started in a test mode whose expectation is "variable"
\* ends with the MW and Grill results N/A, whatever modes ran before it on
\* the same application.
C20_VariableIsNotChecked ==
    [][(is_recording /\ ~is_recording'
          /\ ModeConfig(current_mode).expected_power = Variable)
        => (results'[1].mw_result = "N/A" /\ results'[1].grill_result = "N/A")]_vars

(***************************************************************************)
(* Claims about device faults, checked under FaultSpec.                    *)
(***************************************************************************)
\* the history and the counters of the handler are left as they are
NoSampleTaken ==
    UNCHANGED <<data_buffers, timestamps, sample_count, sample_data, log, clock>>

\* C21: a failed device read disconnects the handler and returns no sample,
\* and the driver stops the run; from then on every read_sample returns no
\* sample and start_recording fails, until connect succeeds again; the
\* handler does not read again on its own.
C21_ReadFailureIsTerminal ==
    [][/\ op' = "read_sample error" =>
            (~is_connected' /\ ~is_recording' /\ NoSampleTaken)
       /\ ~is_connected =>
            /\ NoSampleTaken
            /\ op' \notin {"read_sample", "start_recording"}
            /\ is_recording' = is_recording /\ start_time' = start_time
            /\ is_connected' => op' = "connect"]_vars

\* a read has failed during a run with samples, and a start has since been
\* refused
C21_Witness ==
    /\ op = "start_recording refused"
    /\ results # <<>> /\ Len(log) > 0
    /\ ~is_connected /\ ~is_recording

(***************************************************************************)
(* Claims about the sample history, checked under DAQSpec.                 *)
(***************************************************************************)
\* the number of samples the history holds after n reads
Held(n) == Min(n, BUFFER_MAXLEN)

\* C22: the sample history never holds more than its capacity; each
\* successful read appends one sample at the end and, once the history is
\* full, evicts the oldest one, so the history is always the most recent
\* min(sample_count, capacity) samples in the order they were acquired.
C22_BoundedHistory ==
    LET n == Len(log)
        k == Held(n)
    IN  /\ sample_count = n
        /\ Len(timestamps) = k /\ Len(timestamps) <= BUFFER_MAXLEN
        /\ \A c \in ChannelNames : Len(data_buffers[c]) = k
        /\ \A j \in 1..k :
              /\ timestamps[j] = log[n - k + j].timestamp
              /\ \A c \in ChannelNames :
                    data_buffers[c][j] = log[n - k + j].voltages[c]

\* the history is full and its oldest sample, unlike the next one, has been
\* evicted
C22_Witness ==
    /\ Len(log) = BUFFER_MAXLEN + 1
    /\ log[1].voltages # log[2].voltages
    /\ Len(timestamps) = BUFFER_MAXLEN

\* the up-to-W samples of a buffer before the 0-based index i, sample i
\* itself left out
Preceding(buffer, i) ==
    SubSeq(buffer, IF i > POWER_CALC_WINDOW THEN i - POWER_CALC_WINDOW + 1 ELSE 1, i)

\* C23: in get_all_data the power of every row i is computed over the up-to-W
\* samples that precede index i, sample i itself excluded, for i below W as
\* well as for i at or above W.
C23_ExportWindowExclusive ==
    LET rows == GetAllData(data_buffers, timestamps, start_time) IN
    \A k \in 1..Len(rows) :
        LET mw    == Preceding(data_buffers["Microwave"], k - 1)
            grill == Preceding(data_buffers["Grill"], k - 1)
        IN  /\ rows[k].MW_Power = Percent(OnCount(mw), Len(mw))
            /\ rows[k].Grill_Power = Percent(OnCount(grill), Len(grill))

(***************************************************************************)
(* More claims about the warnings, checked under DAQSpec.                  *)
(***************************************************************************)
\* the duration reported by the overlap warning of tick k
OverlapReported(k) ==
    LET w == SelectSeq(log[k].warnings, LAMBDA x : x.kind = "overlap") IN w[1].value

\* C24: within one uninterrupted run of Microwave and Grill both ON, with
\* timestamps that do not decrease, once a tick has emitted the overlap
\* warning every later tick of the run emits it too, and the duration
\* reported never decreases within the run.
C24_OverlapRepeats ==
    \A k \in 2..Len(log) :
        (BothOn(k - 1) /\ BothOn(k) /\ OverlapWarned(k - 1)
           /\ log[k - 1].timestamp <= log[k].timestamp) =>
            /\ OverlapWarned(k)
            /\ OverlapReported(k) >= OverlapReported(k - 1)

\* two ticks in a row of one run have warned, the second with a longer duration
C24_Witness ==
    /\ Len(log) >= 2
    /\ BothOn(Len(log) - 1) /\ BothOn(Len(log))
    /\ OverlapWarned(Len(log) - 1) /\ OverlapWarned(Len(log))
    /\ OverlapReported(Len(log)) > OverlapReported(Len(log) - 1)

\* the trackers and the warnings of tick k in a recording that is fed the
\* samples of the log on a handler whose trackers are as __init__ leaves them
RECURSIVE FreshRun(_)
FreshRun(k) ==
    IF k = 0
    THEN [count |-> 0, last |-> FALSE, start |-> NoTime, duration |-> 0, warnings |-> <<>>]
    ELSE LET before  == FreshRun(k - 1)
             data    == log[k].voltages
             door    == DoorCheck(before.count, before.last, data)
             overlap == OverlapCheck(before.start, before.duration, log[k].timestamp, data)
         IN  [count |-> door.count, last |-> door.last,
              start |-> overlap.start, duration |-> overlap.duration,
              warnings |-> OutOfRangeCheck(data) \o door.warnings \o overlap.warnings]

\* C25: the warnings and the door-open count of a recording depend only on
\* the samples of that recording: whatever was sampled in earlier recordings
\* on the same handler, they are those of the same samples on a handler
\* whose overlap tracker and previous-door state are fresh.
C25_RecordingsIndependent ==
    /\ \A k \in 1..Len(log) : log[k].warnings = FreshRun(k).warnings
    /\ is_recording => door_open_count = FreshRun(Len(log)).count

(***************************************************************************)
(* More claims about the Pass/Fail analysis, checked under PassFailSpec.   *)
(***************************************************************************)
\* an expectation that is unset or is the 'variable' sentinel
Unchecked(expected) == expected.tag # "num"

\* the results have no detail line of this kind
NoDetail(r, kind) == \A i \in 1..Len(r.details) : r.details[i].kind # kind

\* C26: for MW and for Grill alike, a sub-metric whose expectation is unset
\* or is 'variable' is not checked: the analysis completes without raising,
\* the result of the sub-metric is N/A, it adds no detail line, and it
\* cannot make the overall result FAIL.
C26_UncheckedIsNA ==
    /\ (Unchecked(expected_mw_power) \/ Unchecked(expected_grill_power))
          => op # "analyze_pass_fail raised"
    /\ Analyzed =>
          LET r == results[1] IN
          /\ Unchecked(expected_mw_power) =>
                /\ r.mw_result = "N/A" /\ NoDetail(r, "MW Power")
                /\ r.overall_result = "FAIL" => r.grill_result = "FAIL"
          /\ Unchecked(expected_grill_power) =>
                /\ r.grill_result = "N/A" /\ NoDetail(r, "Grill Power")
                /\ r.overall_result = "FAIL" => r.mw_result = "FAIL"

(***************************************************************************)
(* More claims about the defrost schedule, checked under DefrostSpec.      *)
(***************************************************************************)
\* C27: calculate_defrost_sectors with a weight out of range leaves
\* defrost_mode, defrost_weight and defrost_sectors exactly as they were, so
\* a schedule computed before stays in force; a following call with a valid
\* weight succeeds and replaces the schedule.
C27_RefusedWeightKeepsSchedule ==
    [][defrost_ret' # defrost_ret =>
          IF defrost_ret'[1].ok
          THEN /\ ~WeightRefused(defrost_ret'[1].weight)
               /\ defrost_mode'
               /\ defrost_weight' = defrost_ret'[1].weight
               /\ defrost_sectors' = defrost_ret'[1].sectors
               /\ Len(defrost_sectors') = Len(SectorConfigs)
          ELSE /\ WeightRefused(defrost_ret'[1].weight)
               /\ UNCHANGED <<defrost_mode, defrost_weight, defrost_sectors>>]_vars

\* a weight has been refused while a schedule was in force, and the schedule
\* has answered a query
C27_Witness ==
    /\ defrost_ret # <<>> /\ ~defrost_ret[1].ok
    /\ defrost_mode /\ Len(defrost_sectors) = Len(SectorConfigs)
    /\ sector_ret # <<>> /\ Asked.defrost_mode /\ Asked.sector # <<>>

(***************************************************************************)
(* Claims about starting and stopping, checked under DAQSpec.              *)
(***************************************************************************)
\* C28: start_recording on a connected handler empties the timestamp buffer
\* and the five channel buffers and sets sample_count and door_open_count to
\* 0; on a disconnected handler it fails and changes nothing (buffers,
\* counters, is_recording and start_time keep their values); stop_recording
\* only clears is_recording and keeps the history available for export.
C28_StartStopFrame ==
    [][/\ op' = "start_recording" =>
            /\ is_connected /\ is_recording'
            /\ timestamps' = <<>>
            /\ \A c \in ChannelNames : data_buffers'[c] = <<>>
            /\ sample_count' = 0 /\ door_open_count' = 0
       /\ op' = "start_recording refused" =>
            /\ ~is_connected
            /\ UNCHANGED <<data_buffers, timestamps, sample_count, door_open_count,
                           is_recording, start_time>>
       /\ op' = "stop_recording" =>
            /\ ~is_recording'
            /\ UNCHANGED <<is_connected, data_buffers, timestamps, start_time,
                           sample_count, door_open_count, last_door_state,
                           overlap_start_time, overlap_duration>>
            /\ GetAllData(data_buffers', timestamps', start_time')
                  = GetAllData(data_buffers, timestamps, start_time)]_vars

\* a second recording has been started on a handler that held samples, it has
\* sampled, and it has been stopped: its history is there
C28_Witness ==
    /\ op = "stop_recording"
    /\ Len(timestamps) = 1 /\ clock > 2 /\ start_time > 0
    /\ Len(GetAllData(data_buffers, timestamps, start_time)) = 1

(***************************************************************************)
(* More claims about the state machine, checked under SMSpec.              *)
(***************************************************************************)
\* C29: the lock step comes before the interaction step: an update of a
\* machine that is not locked, with lock_combo, does not look at the
\* interaction signals of the tick, so the inactivity timer keeps the value
\* it had, also when start_pressed, cancel_pressed, knob_turned or door_open
\* is true as well.
C29_LockBeforeInteraction ==
    (~prev.locked /\ daq_signals.lock_combo) =>
        /\ state = "LOCKED"
        /\ last_interaction = prev.last_interaction

(***************************************************************************)
(* Claims about the warning list of a tick, checked under WarnSpec.        *)
(***************************************************************************)
\* the kinds of the warnings of a sample, in their order
Kinds(sample) == [i \in 1..Len(sample.warnings) |-> sample.warnings[i].kind]

\* the channels of a reading beyond the valid range, in channel order
BeyondInOrder(voltages) ==
    SelectSeq(Channels, LAMBDA c : voltages[c] > OUT_OF_RANGE_HIGH
                                   \/ voltages[c] < OUT_OF_RANGE_LOW)

\* C30: the warning list of a tick is: the out-of-range warnings in channel
\* order (Door SW, Lamp, Microwave, Grill, Buzzer), then the door-opened
\* warning if the door opened at this tick, then the overlap warning if the
\* overlap has lasted beyond the tolerance; each of the three parts is there
\* or not by its own condition alone, whatever the other two do.
C30_WarningOrder ==
    [][ op' = "read_sample" =>
          LET w      == sample_data'.warnings
              v      == sample_data'.voltages
              beyond == BeyondInOrder(v)
              edge   == v["Door SW"] >= ON_THRESHOLD /\ ~last_door_state
              long   == /\ v["Microwave"] >= ON_THRESHOLD
                        /\ v["Grill"] >= ON_THRESHOLD
                        /\ overlap_start_time # NoTime
                        /\ clock' - overlap_start_time > OVERLAP_TOLERANCE
              nr     == Len(beyond)
              nd     == IF edge THEN 1 ELSE 0
              no     == IF long THEN 1 ELSE 0
          IN  /\ Len(w) = nr + nd + no
              /\ \A i \in 1..nr :
                    /\ w[i].kind = "out of range"
                    /\ w[i].channel = beyond[i]
                    /\ w[i].value = v[beyond[i]]
              /\ edge => w[nr + 1].kind = "door opened"
              /\ long => /\ w[nr + nd + 1].kind = "overlap"
                         /\ w[nr + nd + 1].value = clock' - overlap_start_time
              /\ door_open_count' = door_open_count + nd ]_vars

\* a tick with Lamp, Grill and Buzzer beyond the range, the door just opened
\* and the overlap beyond the tolerance: five warnings, in that order
C30_Witness ==
    /\ op = "read_sample"
    /\ Len(log) >= 2
    /\ ~DoorOpenAt(log[Len(log) - 1])
    /\ BeyondInOrder(sample_data.voltages) = <<"Lamp", "Grill", "Buzzer">>
    /\ Kinds(sample_data) = <<"out of range", "out of range", "out of range",
                              "door opened", "overlap">>

\* C31: at the end of an update whose door_open input was true the machine
\* is never in RUN, whatever the state before, the other inputs and the
\* time.
C31_NoRunWithDoorOpen ==
    daq_signals.door_open => state # "RUN"

\* start_pressed with the door open, from IDLE: the machine stays IDLE
C31_Witness ==
    /\ prev.state = "IDLE" /\ ~prev.locked
    /\ daq_signals.door_open /\ daq_signals.start_pressed /\ ~daq_signals.lock_combo
    /\ state = "IDLE"

\* C32: the locked flag is true iff the state is LOCKED (is_locked() and
\* get_state() agree), and the machine is never in SLEEP while the flag is
\* true.
C32_LockedIffLockedState ==
    /\ locked <=> state = "LOCKED"
    /\ locked => state # "SLEEP"

\* locked from SLEEP by a lock combo that comes with an interaction
C32_Witness ==
    /\ prev.state = "SLEEP" /\ ~prev.locked
    /\ daq_signals.lock_combo /\ daq_signals.knob_turned
    /\ locked /\ state = "LOCKED"

\* C33: the door rules win over cancel_pressed. From RUN, door_open with
\* cancel_pressed gives PAUSE, not IDLE; from PAUSE, start_pressed with the
\* door closed and cancel_pressed gives RUN, not IDLE (no lock_combo in the
\* tick, the machine not locked).
C33_DoorBeforeCancel ==
    (~prev.locked /\ ~daq_signals.lock_combo /\ daq_signals.cancel_pressed) =>
        /\ (prev.state = "RUN" /\ daq_signals.door_open) => state = "PAUSE"
        /\ (prev.state = "PAUSE" /\ daq_signals.start_pressed /\ ~daq_signals.door_open)
              => state = "RUN"

\* resumed from PAUSE although cancel_pressed was true, after a long pause
C33_Witness ==
    /\ prev.state = "PAUSE" /\ ~prev.locked
    /\ daq_signals.start_pressed /\ daq_signals.cancel_pressed
    /\ ~daq_signals.door_open /\ ~daq_signals.lock_combo
    /\ Elapsed > sleep_timeout
    /\ state = "RUN"

(***************************************************************************)
(* Liveness of the sleep mode, checked under LiveSpec.                     *)
(***************************************************************************)
\* the last update was passed no interaction signal and no lock_combo
Quiet == ~AnyInteraction(daq_signals) /\ ~daq_signals.lock_combo

\* C34: from a state that is not locked, if update keeps being called while
\* time advances (far enough for the timeout to run out) and no interaction
\* signal and no lock_combo is asserted any more, the machine eventually is
\* in SLEEP; once in SLEEP it stays there at every update without
\* interaction and lock_combo; and no update of a locked machine ends in
\* SLEEP.
C34_SleepLiveness ==
    /\ []((~locked /\ last_interaction + sleep_timeout < MaxNow /\ []Quiet)
            => <>(state = "SLEEP"))
    /\ [][(state = "SLEEP" /\ Quiet') => state' = "SLEEP"]_vars
    /\ [][locked => state' # "SLEEP"]_vars

\* asleep after the timeout ran out, and still asleep a quiet update later
C34_Witness ==
    /\ prev.state = "SLEEP" /\ state = "SLEEP"
    /\ Quiet
    /\ now > prev.last_interaction + sleep_timeout + 1

(***************************************************************************)
(* The door-open boolean against the door display, checked under WideSpec. *)
(***************************************************************************)
\* C35: after a tick, the door-open boolean handed to the state machine and
\* kept by the door counter is true exactly when the door voltage is shown
\* open ("OFF", 4.5 V to 5.0 V), and false when it is shown closed ("ON").
C35_DoorOpenAgrees ==
    op = "read_sample" =>
        /\ daq_signals.door_open = last_door_state
        /\ daq_signals.door_open <=> door_status = "OFF"
        /\ door_status = "ON" => ~daq_signals.door_open

(***************************************************************************)
(* The defrost schedule over several recordings, checked under ModeSpec.   *)
(***************************************************************************)
\* C36: during a recording started in a test mode that is not Defrost no
\* defrost schedule is active: get_current_defrost_sector returns no sector
\* whatever the elapsed time, also when an earlier recording on the same
\* handler was made in Defrost mode.
C36_NoScheduleOutsideDefrost ==
    [][(is_recording /\ ModeConfig(current_mode).type # "defrost"
          /\ sector_ret' # sector_ret)
        => (~defrost_mode /\ sector_ret'[1].sector = <<>>)]_vars

(***************************************************************************)
(* The buffers after a failed read, checked under ShortSpec.               *)
(***************************************************************************)
\* C37: in every reachable state, also after a read_sample that failed on a
\* device error or on a reading with fewer values than channels, the
\* timestamp buffer and the five channel buffers have the same length.
C37_BuffersAligned ==
    \A c \in ChannelNames : Len(data_buffers[c]) = Len(timestamps)

(***************************************************************************)
(* The analysis at stop and again at save, checked under SaveSpec.         *)
(***************************************************************************)
\* the state of the handler that an analysis could touch
HandlerState ==
    <<is_connected, is_recording, data_buffers, timestamps, start_time, sample_count,
      door_open_count, last_door_state, overlap_start_time, overlap_duration,
      expected_mw_power, expected_grill_power, defrost_mode, defrost_weight,
      defrost_sectors>>

\* C38: analyze_pass_fail changes no state of the handler, and the call made
\* at save returns the same overall_result, mw_result, grill_result and
\* measured values as the call made at stop, no sample being read between
\* the two; the measured values are the live powers, over the last
\* min(W, n) samples.
C38_AnalysisRepeatable ==
    [][SaveData =>
          /\ UNCHANGED HandlerState
          /\ results'[1].overall_result = results[1].overall_result
          /\ results'[1].mw_result = results[1].mw_result
          /\ results'[1].grill_result = results[1].grill_result
          /\ results'[1].mw_measured = results[1].mw_measured
          /\ results'[1].grill_measured = results[1].grill_measured
          /\ results'[1].mw_measured = StatedPower("Microwave")[1]
          /\ results'[1].grill_measured = StatedPower("Grill")[1]]_vars

====
